---- MODULE Spec2Model ----
(***************************************************************************)
(* CollapseTransition (src/src/CollapseTransition.vue): a controller that  *)
(* measures an element, caches the measurement and sequences inline-style  *)
(* writes for the enter and leave hooks of a <transition> host.            *)
(*                                                                         *)
(* One action per hook of the component, one for the `dimension` watcher,  *)
(* one for the passing of time and one for the firing of a timer.  Every   *)
(* hook action runs the whole method; the intermediate states of a method  *)
(* are kept, in order, in the variable `steps` (one entry per statement of *)
(* the method), so that ordering properties can be stated on them.         *)
(***************************************************************************)
EXTENDS Integers, Sequences, FiniteSets, TLC

\* ---------------------------------------------------------------- bounds
\* Number of enter/leave invocations in one behaviour.
MaxCalls == 3
\* Largest pixel length the layout arithmetic is asked to read back.
MaxPx == 400

VARIABLES
    dimension,      \* prop `dimension`
    duration,       \* prop `duration` (milliseconds)
    easing,         \* prop `easing`
    cachedStyles,   \* data `cachedStyles`: ordered list of [key, value]
    style,          \* el.style: inline declarations of the element
    sheet,          \* what the stylesheet and the content give the element
    hostPhase,      \* where the <transition> host is in its hook protocol
    current,        \* the invocation whose completion the host awaits (0: none)
    firstRender,    \* TRUE until the host has started its first phase
    calls,          \* one record per enter/leave invocation
    timers,         \* the pending setTimeout timers
    steps,          \* the statements run by the most recent hook, in order
    probed,         \* detectAndCacheDimensions ran since the cache was last cleared
    unsettled,      \* an enter/leave hook ran and no settle hook ran since
    phaseAxis,      \* `dimension` when the latest enter/leave hook ran
    reused,         \* the latest enter/leave hook found the cache populated
    idleToWidth,    \* `dimension` last went from height to width, with no phase in
                    \* flight, and no phase has ended since
    rtStage,        \* progress through enter, after-enter, leave, after-leave, enter, after-enter
    rtProbes        \* the caches freshly populated along that sequence

vars == <<dimension, duration, easing, cachedStyles, style, sheet, hostPhase,
          current, firstRender, calls, timers, steps, probed, unsettled, phaseAxis,
          reused, idleToWidth, rtStage, rtProbes>>

\* ------------------------------------------------------------ the element
El == 0

SizeKeys == {"height", "paddingTop", "paddingBottom",
             "width", "paddingLeft", "paddingRight"}
StyleKeys == SizeKeys \cup {"visibility", "display", "overflow", "transition"}

\* `${n}px`
Px(n) == ToString(n) \o "px"

PxTable == [n \in 0..MaxPx |-> Px(n)]

\* The length a CSS value denotes, in pixels ('0' needs no unit).
PxValue(s) == IF s = "0" THEN 0 ELSE CHOOSE n \in 0..MaxPx : PxTable[n] = s

\* kebab-case CSS property -> the key of el.style that holds it
StyleKeyOf == ("padding-top" :> "paddingTop") @@ ("padding-bottom" :> "paddingBottom")
              @@ ("padding-left" :> "paddingLeft") @@ ("padding-right" :> "paddingRight")

\* getComputedStyle(el, null).getPropertyValue(cssProp): the inline declaration
\* wins over the stylesheet; lengths are resolved to pixels.
getCssValue(st, sh, cssProp) ==
    LET inline == st[StyleKeyOf[cssProp]]
    IN  IF inline = "" THEN sh[cssProp] ELSE Px(PxValue(inline))

\* el.offsetHeight: content box plus vertical padding; nothing is laid out
\* while the element is display: none.
offsetHeight(st, sh) ==
    IF st["display"] = "none" THEN 0
    ELSE (IF st["height"] = "" THEN sh["contentHeight"] ELSE PxValue(st["height"]))
         + PxValue(IF st["paddingTop"] = "" THEN sh["padding-top"] ELSE st["paddingTop"])
         + PxValue(IF st["paddingBottom"] = "" THEN sh["padding-bottom"] ELSE st["paddingBottom"])

\* el.offsetWidth
offsetWidth(st, sh) ==
    IF st["display"] = "none" THEN 0
    ELSE (IF st["width"] = "" THEN sh["contentWidth"] ELSE PxValue(st["width"]))
         + PxValue(IF st["paddingLeft"] = "" THEN sh["padding-left"] ELSE st["paddingLeft"])
         + PxValue(IF st["paddingRight"] = "" THEN sh["padding-right"] ELSE st["paddingRight"])

\* ------------------------------------------------------- cached styles
\* Object.keys(this.cachedStyles)
Keys(cache) == [i \in 1..Len(cache) |-> cache[i].key]

KeySet(cache) == {cache[i].key : i \in 1..Len(cache)}

\* this.cachedStyles[key]
ValueOf(cache, k) == cache[CHOOSE i \in 1..Len(cache) : cache[i].key = k].value

\* --------------------------------------------------- strings as characters
UpperLetters == <<"A","B","C","D","E","F","G","H","I","J","K","L","M",
                  "N","O","P","Q","R","S","T","U","V","W","X","Y","Z">>
LowerLetters == <<"a","b","c","d","e","f","g","h","i","j","k","l","m",
                  "n","o","p","q","r","s","t","u","v","w","x","y","z">>

\* /[A-Z]/
IsUpper(c) == \E i \in 1..26 : UpperLetters[i] = c

\* String.prototype.toLowerCase on one character
toLowerCase(c) ==
    IF IsUpper(c) THEN LowerLetters[CHOOSE i \in 1..26 : UpperLetters[i] = c] ELSE c

\* The characters of the style keys the component handles.
Chars == ("height" :> <<"h","e","i","g","h","t">>)
      @@ ("width" :> <<"w","i","d","t","h">>)
      @@ ("paddingTop" :> <<"p","a","d","d","i","n","g","T","o","p">>)
      @@ ("paddingBottom" :> <<"p","a","d","d","i","n","g","B","o","t","t","o","m">>)
      @@ ("paddingLeft" :> <<"p","a","d","d","i","n","g","L","e","f","t">>)
      @@ ("paddingRight" :> <<"p","a","d","d","i","n","g","R","i","g","h","t">>)

RECURSIVE Str(_)
\* the string made of a sequence of characters
Str(cs) == IF cs = <<>> THEN "" ELSE Head(cs) \o Str(Tail(cs))

\* style.replace(new RegExp(ch), rep): the first occurrence only
ReplaceFirst(cs, ch, rep) ==
    IF \A j \in 1..Len(cs) : cs[j] # ch THEN cs
    ELSE LET j == CHOOSE x \in 1..Len(cs) :
                      cs[x] = ch /\ \A y \in 1..(x - 1) : cs[y] # ch
         IN  SubSeq(cs, 1, j - 1) \o rep \o SubSeq(cs, j + 1, Len(cs))

RECURSIVE ReplaceLoop(_, _, _)
\* for (let i = 0, n = upperChars.length; i < n; i++) style = style.replace(...)
ReplaceLoop(cs, upperChars, i) ==
    IF i > Len(upperChars) THEN cs
    ELSE ReplaceLoop(ReplaceFirst(cs, upperChars[i], <<"-", toLowerCase(upperChars[i])>>),
                     upperChars, i + 1)

\* convertToCssProperty without the lowercasing: 'paddingTop' -> 'padding-Top'
convertToCssPropertyKeepCase(key) ==
    LET cs == Chars[key]
        upperChars == SelectSeq(cs, IsUpper)
        hyphened == [i \in 1..Len(upperChars) |-> upperChars[i]]
        replaced == IF upperChars = <<>> THEN cs
                    ELSE ReplaceFirst(cs, upperChars[1], <<"-", upperChars[1]>>)
    IN  IF upperChars = <<>> THEN key
        ELSE IF Head(replaced) = "-" THEN Str(Tail(replaced))
        ELSE Str(replaced)

\* convertToCssProperty: 'paddingTop' -> 'padding-top'
convertToCssProperty(key) ==
    LET cs == Chars[key]
        upperChars == SelectSeq(cs, IsUpper)
        replaced == ReplaceLoop(cs, upperChars, 1)
    IN  IF upperChars = <<>> THEN key
        ELSE IF Head(replaced) = "-" THEN Str(Tail(replaced))
        ELSE Str(replaced)

RECURSIVE Join(_, _)
\* Array.prototype.join
Join(ss, sep) ==
    IF ss = <<>> THEN ""
    ELSE IF Len(ss) = 1 THEN ss[1]
    ELSE ss[1] \o sep \o Join(Tail(ss), sep)

\* computed `transition`
transition(cache, dur, eas) ==
    Join([i \in 1..Len(cache) |->
            convertToCssProperty(cache[i].key) \o " " \o ToString(dur) \o "ms " \o eas],
         ", ")

\* ------------------------------------------------------------ statements
\* The entry a hook starts from: the host's call, with the state it finds.
Call(event, args, st, cache, pr) ==
    [op |-> "call", event |-> event, args |-> args, delay |-> 0,
     style |-> st, cache |-> cache, probed |-> pr, reads |-> 0, writes |-> 0]

\* The entry of a statement that so far changed nothing.
Step(e, op) ==
    [e EXCEPT !.op = op, !.event = "", !.args = <<>>, !.delay = 0,
              !.reads = 0, !.writes = 0]

\* Number of DOM reads of `el.style.x || this.getCssValue(el, 'x')`
PaddingReads(st, key) == IF st[key] = "" THEN 2 ELSE 1

\* el.style.paddingTop || this.getCssValue(el, 'padding-top')
PaddingOf(st, sh, key, cssProp) ==
    IF st[key] # "" THEN st[key] ELSE getCssValue(st, sh, cssProp)

\* detectRelevantDimensions falling back to the height for an unknown axis
detectRelevantDimensionsOrHeight(st, sh, dim) ==
    IF dim = "width" THEN
        [styles |-> << [key |-> "width", value |-> Px(offsetWidth(st, sh))],
                       [key |-> "paddingLeft",
                        value |-> PaddingOf(st, sh, "paddingLeft", "padding-left")],
                       [key |-> "paddingRight",
                        value |-> PaddingOf(st, sh, "paddingRight", "padding-right")] >>,
         reads |-> 1 + PaddingReads(st, "paddingLeft") + PaddingReads(st, "paddingRight")]
    ELSE
        [styles |-> << [key |-> "height", value |-> Px(offsetHeight(st, sh))],
                       [key |-> "paddingTop",
                        value |-> PaddingOf(st, sh, "paddingTop", "padding-top")],
                       [key |-> "paddingBottom",
                        value |-> PaddingOf(st, sh, "paddingBottom", "padding-bottom")] >>,
         reads |-> 1 + PaddingReads(st, "paddingTop") + PaddingReads(st, "paddingBottom")]

detectRelevantDimensions(st, sh, dim) ==
    IF dim = "height" THEN
        [styles |-> << [key |-> "height", value |-> Px(offsetHeight(st, sh))],
                       [key |-> "paddingTop",
                        value |-> PaddingOf(st, sh, "paddingTop", "padding-top")],
                       [key |-> "paddingBottom",
                        value |-> PaddingOf(st, sh, "paddingBottom", "padding-bottom")] >>,
         reads |-> 1 + PaddingReads(st, "paddingTop") + PaddingReads(st, "paddingBottom")]
    ELSE IF dim = "width" THEN
        [styles |-> << [key |-> "width", value |-> Px(offsetWidth(st, sh))],
                       [key |-> "paddingLeft",
                        value |-> PaddingOf(st, sh, "paddingLeft", "padding-left")],
                       [key |-> "paddingRight",
                        value |-> PaddingOf(st, sh, "paddingRight", "padding-right")] >>,
         reads |-> 1 + PaddingReads(st, "paddingLeft") + PaddingReads(st, "paddingRight")]
    ELSE [styles |-> <<>>, reads |-> 0]

\* detectAndCacheDimensions without its early return
detectAndCacheDimensionsAlways(e, sh, dim) ==
    LET visibility == e.style["visibility"]
        display == e.style["display"]
        shown == [e.style EXCEPT !["visibility"] = "hidden", !["display"] = ""]
        found == detectRelevantDimensions(shown, sh, dim)
    IN  [Step(e, "detectAndCacheDimensions") EXCEPT
            !.cache = found.styles,
            !.style = [shown EXCEPT !["visibility"] = visibility,
                                    !["display"] = display],
            !.probed = TRUE,
            !.reads = 2 + found.reads,
            !.writes = 4]

\* detectAndCacheDimensions restoring the visibility only
detectAndCacheDimensionsNoDisplay(e, sh, dim) ==
    IF Len(Keys(e.cache)) # 0 THEN [Step(e, "detectAndCacheDimensions") EXCEPT !.probed = TRUE]
    ELSE LET visibility == e.style["visibility"]
             shown == [e.style EXCEPT !["visibility"] = "hidden", !["display"] = ""]
             found == detectRelevantDimensions(shown, sh, dim)
         IN  [Step(e, "detectAndCacheDimensions") EXCEPT
                 !.cache = found.styles,
                 !.style = [shown EXCEPT !["visibility"] = visibility],
                 !.probed = TRUE,
                 !.reads = 2 + found.reads,
                 !.writes = 3]

detectAndCacheDimensions(e, sh, dim) ==
    IF Len(Keys(e.cache)) # 0 THEN [Step(e, "detectAndCacheDimensions") EXCEPT !.probed = TRUE]
    ELSE LET visibility == e.style["visibility"]
             display == e.style["display"]
             shown == [e.style EXCEPT !["visibility"] = "hidden", !["display"] = ""]
             found == detectRelevantDimensions(shown, sh, dim)
         IN  [Step(e, "detectAndCacheDimensions") EXCEPT
                 !.cache = found.styles,
                 !.style = [shown EXCEPT !["visibility"] = visibility,
                                         !["display"] = display],
                 !.probed = TRUE,
                 !.reads = 2 + found.reads,
                 !.writes = 4]

clearCachedDimensions(e) ==
    [Step(e, "clearCachedDimensions") EXCEPT !.cache = <<>>, !.probed = FALSE]

setTransition(e, dur, eas) ==
    [Step(e, "setTransition") EXCEPT
        !.style = [e.style EXCEPT !["transition"] = transition(e.cache, dur, eas)],
        !.writes = 1]

unsetTransition(e) ==
    [Step(e, "unsetTransition") EXCEPT
        !.style = [e.style EXCEPT !["transition"] = ""], !.writes = 1]

hideOverflow(e) ==
    [Step(e, "hideOverflow") EXCEPT
        !.style = [e.style EXCEPT !["overflow"] = "hidden"], !.writes = 1]

unsetOverflow(e) ==
    [Step(e, "unsetOverflow") EXCEPT
        !.style = [e.style EXCEPT !["overflow"] = ""], !.writes = 1]

setClosedDimensions(e) ==
    [Step(e, "setClosedDimensions") EXCEPT
        !.style = [k \in StyleKeys |->
                      IF k \in KeySet(e.cache) THEN "0" ELSE e.style[k]],
        !.writes = Len(Keys(e.cache))]

setOpenedDimensions(e) ==
    [Step(e, "setOpenedDimensions") EXCEPT
        !.style = [k \in StyleKeys |->
                      IF k \in KeySet(e.cache) THEN ValueOf(e.cache, k) ELSE e.style[k]],
        !.writes = Len(Keys(e.cache))]

unsetDimensions(e) ==
    [Step(e, "unsetDimensions") EXCEPT
        !.style = [k \in StyleKeys |->
                      IF k \in KeySet(e.cache) THEN "" ELSE e.style[k]],
        !.writes = Len(Keys(e.cache))]

\* getComputedStyle(el)[this.dimension]: read, result dropped
forceRepaint(e) == [Step(e, "forceRepaint") EXCEPT !.reads = 1]

\* this.$emit(event, ...args)
emit(e, event, args) == [Step(e, "$emit") EXCEPT !.event = event, !.args = args]

\* setTimeout(done) with the delay forgotten
setTimeoutNow(e, done, delay) ==
    [Step(e, "setTimeout") EXCEPT !.args = <<done>>, !.delay = 0]

\* setTimeout(done, delay)
setTimeout(e, done, delay) ==
    [Step(e, "setTimeout") EXCEPT !.args = <<done>>, !.delay = delay]

\* ------------------------------------------------------------- methods
\* Each method is the sequence of entries it goes through, the call first.
beforeAppear(e) == <<e, emit(e, "before-appear", <<e.args[1]>>)>>

appear(e) == <<e, emit(e, "appear", <<e.args[1]>>)>>

afterAppear(e) == <<e, emit(e, "after-appear", <<e.args[1]>>)>>

appearCancelled(e) == <<e, emit(e, "appear-cancelled", <<e.args[1]>>)>>

beforeEnter(e) == <<e, emit(e, "before-enter", <<e.args[1]>>)>>

\* enter with the transition installed before the closed state is flushed
enterArmedFirst(e, sh, dim, dur, eas) ==
    LET s1 == detectAndCacheDimensions(e, sh, dim)
        s2 == setTransition(s1, dur, eas)
        s3 == setClosedDimensions(s2)
        s4 == hideOverflow(s3)
        s5 == forceRepaint(s4)
        s6 == setOpenedDimensions(s5)
        s7 == emit(s6, "enter", <<e.args[1], e.args[2]>>)
        s8 == setTimeout(s7, e.args[2], dur)
    IN  <<e, s1, s2, s3, s4, s5, s6, s7, s8>>

\* enter scheduling its completion twice
enterTwoTimers(e, sh, dim, dur, eas) ==
    LET s1 == detectAndCacheDimensions(e, sh, dim)
        s2 == setClosedDimensions(s1)
        s3 == hideOverflow(s2)
        s4 == forceRepaint(s3)
        s5 == setTransition(s4, dur, eas)
        s6 == setOpenedDimensions(s5)
        s7 == emit(s6, "enter", <<e.args[1], e.args[2]>>)
        s8 == setTimeout(s7, e.args[2], dur)
        s9 == setTimeout(s8, e.args[2], dur)
    IN  <<e, s1, s2, s3, s4, s5, s6, s7, s8, s9>>

enter(e, sh, dim, dur, eas) ==
    LET s1 == detectAndCacheDimensions(e, sh, dim)
        s2 == setClosedDimensions(s1)
        s3 == hideOverflow(s2)
        s4 == forceRepaint(s3)
        s5 == setTransition(s4, dur, eas)
        s6 == setOpenedDimensions(s5)
        s7 == emit(s6, "enter", <<e.args[1], e.args[2]>>)
        s8 == setTimeout(s7, e.args[2], dur)
    IN  <<e, s1, s2, s3, s4, s5, s6, s7, s8>>

afterEnter(e) ==
    LET s1 == unsetOverflow(e)
        s2 == unsetTransition(s1)
        s3 == unsetDimensions(s2)
        s4 == clearCachedDimensions(s3)
        s5 == emit(s4, "after-enter", <<e.args[1]>>)
    IN  <<e, s1, s2, s3, s4, s5>>

\* enterCancelled cleaning up as afterEnter does
enterCancelledCleans(e) ==
    LET s1 == unsetOverflow(e)
        s2 == unsetTransition(s1)
        s3 == unsetDimensions(s2)
        s4 == clearCachedDimensions(s3)
    IN  <<e, s1, s2, s3, s4, emit(s4, "enter-cancelled", <<e.args[1]>>)>>

enterCancelled(e) == <<e, emit(e, "enter-cancelled", <<e.args[1]>>)>>

beforeLeave(e) == <<e, emit(e, "before-leave", <<e.args[1]>>)>>

\* leave running the steps in the order of enter
leaveLikeEnter(e, sh, dim, dur, eas) ==
    LET s1 == detectAndCacheDimensions(e, sh, dim)
        s2 == setClosedDimensions(s1)
        s3 == hideOverflow(s2)
        s4 == forceRepaint(s3)
        s5 == setTransition(s4, dur, eas)
        s6 == setOpenedDimensions(s5)
        s7 == emit(s6, "leave", <<e.args[1], e.args[2]>>)
        s8 == setTimeout(s7, e.args[2], dur)
    IN  <<e, s1, s2, s3, s4, s5, s6, s7, s8>>

leave(e, sh, dim, dur, eas) ==
    LET s1 == detectAndCacheDimensions(e, sh, dim)
        s2 == setOpenedDimensions(s1)
        s3 == hideOverflow(s2)
        s4 == forceRepaint(s3)
        s5 == setTransition(s4, dur, eas)
        s6 == setClosedDimensions(s5)
        s7 == emit(s6, "leave", <<e.args[1], e.args[2]>>)
        s8 == setTimeout(s7, e.args[2], dur)
    IN  <<e, s1, s2, s3, s4, s5, s6, s7, s8>>

\* afterLeave without clearCachedDimensions
afterLeaveKeepsCache(e) ==
    LET s1 == unsetOverflow(e)
        s2 == unsetTransition(s1)
        s3 == unsetDimensions(s2)
        s4 == emit(s3, "after-leave", <<e.args[1]>>)
    IN  <<e, s1, s2, s3, s4>>

afterLeave(e) ==
    LET s1 == unsetOverflow(e)
        s2 == unsetTransition(s1)
        s3 == unsetDimensions(s2)
        s4 == clearCachedDimensions(s3)
        s5 == emit(s4, "after-leave", <<e.args[1]>>)
    IN  <<e, s1, s2, s3, s4, s5>>

\* leaveCancelled emitting the event of the other direction
leaveCancelledAsEnter(e) == <<e, emit(e, "enter-cancelled", <<e.args[1]>>)>>

leaveCancelled(e) == <<e, emit(e, "leave-cancelled", <<e.args[1]>>)>>

\* a dimension watcher that keeps the cache
watchDimensionKeepsCache(e) == <<e, Step(e, "clearCachedDimensions")>>

\* watch: dimension()
watchDimension(e) == <<e, clearCachedDimensions(e)>>

\* ------------------------------------------------------------ the inputs
Dimensions == {"height", "width", "depth"}
Durations == {1, 2}
Easings == {"ease-in"}

\* The element of the spec's scenario: 120px high with 10px + 5px of padding.
Sheets ==
    { ("contentHeight" :> 105) @@ ("contentWidth" :> 80)
      @@ ("padding-top" :> "10px") @@ ("padding-bottom" :> "5px")
      @@ ("padding-left" :> "0px") @@ ("padding-right" :> "0px") }

NoStyle == [k \in StyleKeys |-> ""]

\* Inline declarations the element may carry before the first hook runs:
\* <<visibility, display, paddingTop and paddingLeft>>.
InitialStyles ==
    { [NoStyle EXCEPT !["visibility"] = v[1], !["display"] = v[2],
                      !["paddingTop"] = v[3], !["paddingLeft"] = v[3]] :
        v \in {<<"", "", "">>, <<"hidden", "none", "20px">>, <<"visible", "block", "">>} }

\* --------------------------------------------------------------- the host
RoundTrip == <<"enter", "after-enter", "leave", "after-leave", "enter", "after-enter">>

\* Progress through RoundTrip on a driving event; -1 once the run left it.
RtStep(stage, event) ==
    IF stage >= 0 /\ stage < Len(RoundTrip) /\ RoundTrip[stage + 1] = event
    THEN stage + 1 ELSE -1

\* The timers a method scheduled.
Scheduled(log) ==
    LET sched == SelectSeq(log, LAMBDA e : e.op = "setTimeout")
    IN  [i \in 1..Len(sched) |->
            [done |-> sched[i].args[1], delay |-> sched[i].delay, waited |-> 0]]

\* What a method leaves behind.
Ran(log) ==
    /\ steps' = log
    /\ style' = log[Len(log)].style
    /\ cachedStyles' = log[Len(log)].cache
    /\ probed' = log[Len(log)].probed
    /\ timers' = timers \o Scheduled(log)

Here(event, args) == Call(event, args, style, cachedStyles, probed)

Init ==
    /\ dimension \in Dimensions
    /\ duration \in Durations
    /\ easing \in Easings
    /\ cachedStyles = <<>>
    /\ style \in InitialStyles
    /\ sheet \in Sheets
    /\ hostPhase = "idle"
    /\ current = 0
    /\ firstRender = TRUE
    /\ calls = <<>>
    /\ timers = <<>>
    /\ steps = <<>>
    /\ probed = FALSE
    /\ unsettled = FALSE
    /\ phaseAxis = ""
    /\ reused = FALSE
    /\ idleToWidth = FALSE
    /\ rtStage = 0
    /\ rtProbes = <<>>

Props == <<dimension, duration, easing, sheet>>
Ghosts == <<unsettled, phaseAxis, reused, idleToWidth, rtStage, rtProbes>>

BeforeAppear ==
    /\ hostPhase = "idle" /\ firstRender
    /\ Ran(beforeAppear(Here("before-appear", <<El>>)))
    /\ hostPhase' = "beforeAppear"
    /\ firstRender' = FALSE
    /\ UNCHANGED <<Props, Ghosts, current, calls>>

Appear ==
    /\ hostPhase = "beforeAppear"
    /\ Ran(appear(Here("appear", <<El>>)))
    /\ hostPhase' = "appearing"
    /\ UNCHANGED <<Props, Ghosts, current, calls, firstRender>>

AfterAppear ==
    /\ hostPhase = "appearing"
    /\ Ran(afterAppear(Here("after-appear", <<El>>)))
    /\ hostPhase' = "idle"
    /\ UNCHANGED <<Props, Ghosts, current, calls, firstRender>>

AppearCancelled ==
    /\ hostPhase = "appearing"
    /\ Ran(appearCancelled(Here("appear-cancelled", <<El>>)))
    /\ hostPhase' = "idle"
    /\ UNCHANGED <<Props, Ghosts, current, calls, firstRender>>

BeforeEnter ==
    /\ hostPhase = "idle" /\ Len(calls) < MaxCalls
    /\ Ran(beforeEnter(Here("before-enter", <<El>>)))
    /\ hostPhase' = "beforeEnter"
    /\ firstRender' = FALSE
    /\ UNCHANGED <<Props, Ghosts, current, calls>>

\* What an enter or leave invocation adds to the ghosts.
Started(kind, id, log) ==
    /\ calls' = Append(calls, [duration |-> duration, fired |-> 0, early |-> FALSE])
    /\ current' = id
    /\ unsettled' = TRUE
    /\ phaseAxis' = dimension
    /\ reused' = (cachedStyles # <<>>)
    /\ UNCHANGED idleToWidth
    /\ rtStage' = RtStep(rtStage, kind)
    /\ rtProbes' = IF rtStage' < 0 THEN <<>>
                   ELSE IF cachedStyles = <<>> THEN Append(rtProbes, log[2].cache)
                   ELSE rtProbes

Enter ==
    /\ hostPhase = "beforeEnter"
    /\ LET id == Len(calls) + 1
           log == enter(Here("enter", <<El, id>>), sheet, dimension, duration, easing)
       IN  Ran(log) /\ Started("enter", id, log)
    /\ hostPhase' = "entering"
    /\ UNCHANGED <<Props, firstRender>>

\* What a settle hook adds to the ghosts.
Settled(event) ==
    /\ current' = 0
    /\ unsettled' = FALSE
    /\ idleToWidth' = FALSE
    /\ UNCHANGED <<phaseAxis, reused>>
    /\ rtStage' = RtStep(rtStage, event)
    /\ rtProbes' = IF rtStage' < 0 THEN <<>> ELSE rtProbes

AfterEnter ==
    /\ hostPhase = "enterDone"
    /\ Ran(afterEnter(Here("after-enter", <<El>>)))
    /\ Settled("after-enter")
    /\ hostPhase' = "idle"
    /\ UNCHANGED <<Props, calls, firstRender>>

\* What a cancellation adds to the ghosts.
Cancelled ==
    /\ current' = 0
    /\ rtStage' = -1
    /\ rtProbes' = <<>>
    /\ idleToWidth' = FALSE
    /\ UNCHANGED <<unsettled, phaseAxis, reused>>

EnterCancelled ==
    /\ hostPhase = "entering"
    /\ Ran(enterCancelled(Here("enter-cancelled", <<El>>)))
    /\ Cancelled
    /\ hostPhase' = "idle"
    /\ UNCHANGED <<Props, calls, firstRender>>

BeforeLeave ==
    /\ hostPhase = "idle" /\ Len(calls) < MaxCalls
    /\ Ran(beforeLeave(Here("before-leave", <<El>>)))
    /\ hostPhase' = "beforeLeave"
    /\ firstRender' = FALSE
    /\ UNCHANGED <<Props, Ghosts, current, calls>>

Leave ==
    /\ hostPhase = "beforeLeave"
    /\ LET id == Len(calls) + 1
           log == leave(Here("leave", <<El, id>>), sheet, dimension, duration, easing)
       IN  Ran(log) /\ Started("leave", id, log)
    /\ hostPhase' = "leaving"
    /\ UNCHANGED <<Props, firstRender>>

AfterLeave ==
    /\ hostPhase = "leaveDone"
    /\ Ran(afterLeave(Here("after-leave", <<El>>)))
    /\ Settled("after-leave")
    /\ hostPhase' = "idle"
    /\ UNCHANGED <<Props, calls, firstRender>>

LeaveCancelled ==
    /\ hostPhase = "leaving"
    /\ Ran(leaveCancelled(Here("leave-cancelled", <<El>>)))
    /\ Cancelled
    /\ hostPhase' = "idle"
    /\ UNCHANGED <<Props, calls, firstRender>>

\* The parent passes another `dimension`; the watcher runs before any hook.
SetDimension ==
    /\ \E d \in Dimensions \ {dimension} : dimension' = d
    /\ Ran(watchDimension(Here("watch:dimension", <<>>)))
    /\ idleToWidth' = (dimension = "height" /\ dimension' = "width"
                          /\ hostPhase \notin {"entering", "enterDone",
                                                "leaving", "leaveDone"})
    /\ rtStage' = -1
    /\ rtProbes' = <<>>
    /\ UNCHANGED <<duration, easing, sheet, hostPhase, current, firstRender,
                   calls, unsettled, phaseAxis, reused>>

\* ------------------------------------------------------------------ time
Min(a, b) == IF a < b THEN a ELSE b

\* One millisecond passes.
Tick ==
    /\ \E i \in 1..Len(timers) : timers[i].waited < timers[i].delay
    /\ timers' = [i \in 1..Len(timers) |->
                    [timers[i] EXCEPT !.waited = Min(@ + 1, timers[i].delay)]]
    /\ UNCHANGED <<Props, Ghosts, cachedStyles, style, hostPhase, current,
                   firstRender, calls, steps, probed>>

\* The host's `done`: it ends the phase it was made for, once.
Done(id) ==
    IF current = id /\ hostPhase = "entering" THEN "enterDone"
    ELSE IF current = id /\ hostPhase = "leaving" THEN "leaveDone"
    ELSE hostPhase

\* A timer whose delay has passed runs its callback.
TimerFire(i) ==
    /\ i \in 1..Len(timers)
    /\ timers[i].waited >= timers[i].delay
    /\ LET id == timers[i].done
       IN  /\ calls' = [calls EXCEPT
                           ![id].fired = @ + 1,
                           ![id].early = @ \/ timers[i].waited < calls[id].duration]
           /\ hostPhase' = Done(id)
    /\ timers' = SubSeq(timers, 1, i - 1) \o SubSeq(timers, i + 1, Len(timers))
    /\ UNCHANGED <<Props, Ghosts, cachedStyles, style, current, firstRender,
                   steps, probed>>

CallIds == 1..MaxCalls
TimerSlots == 1..MaxCalls

Next ==
    \/ BeforeAppear \/ Appear \/ AfterAppear \/ AppearCancelled
    \/ BeforeEnter \/ Enter \/ AfterEnter \/ EnterCancelled
    \/ BeforeLeave \/ Leave \/ AfterLeave \/ LeaveCancelled
    \/ SetDimension
    \/ Tick
    \/ \E i \in TimerSlots : TimerFire(i)

Spec == Init /\ [][Next]_vars

\* The default axis, an element without inline declarations and the longer
\* of the durations.
DefaultInit == Init /\ dimension = "height" /\ style = NoStyle /\ duration = 2

\* The timer queue runs a due timer and time passes while a timer waits; the
\* behaviours start from DefaultInit (every axis is still reached through
\* SetDimension).
FairSpec ==
    /\ DefaultInit
    /\ [][Next]_vars
    /\ WF_vars(Tick)
    /\ WF_vars(\E i \in TimerSlots : TimerFire(i))

\* FairSpec with a host whose `done` calls the after-hook of the phase it ends.
SettleSpec == FairSpec /\ WF_vars(AfterEnter \/ AfterLeave)

\* ================================================================ claims
\* The keys the probe caches for an axis.
AxisKeys(dim) ==
    IF dim = "height" THEN {"height", "paddingTop", "paddingBottom"}
    ELSE IF dim = "width" THEN {"width", "paddingLeft", "paddingRight"}
    ELSE {}

\* The most recent hook was `event`.
Last(event) == steps # <<>> /\ steps[1].event = event

\* The names of the statements of the most recent hook.
Ops == [i \in 1..Len(steps) |-> steps[i].op]

\* The events the most recent hook emitted.
Emitted == SelectSeq(steps, LAMBDA e : e.op = "$emit")

InFlight == hostPhase \in {"entering", "enterDone", "leaving", "leaveDone"}

HookNames == {"before-appear", "appear", "after-appear", "appear-cancelled",
              "before-enter", "enter", "after-enter", "enter-cancelled",
              "before-leave", "leave", "after-leave", "leave-cancelled"}

\* C1: for an axis in {height, width}, once after-enter has run for an expand
\* phase started on that axis, the element has no inline value for the size
\* property, the two padding properties, overflow or transition.
C1_FullCleanupAfterEnter ==
    (Last("after-enter") /\ phaseAxis \in {"height", "width"}) =>
        \A k \in AxisKeys(phaseAxis) \cup {"overflow", "transition"} : style[k] = ""

\* C2 as stated: the cache is non-empty only while a phase is in flight.
C2_NonEmptyOnlyInFlight == cachedStyles # <<>> => InFlight

\* C2 amended: the cache is non-empty only after an enter or leave hook has run
\* and before the next settle hook (after-enter, after-leave) of that or of a
\* later phase; it is empty whenever no phase started since the last settle.
C2_NonEmptyOnlyUnsettled == cachedStyles # <<>> => unsettled

\* C2 witness: a cancelled phase has left the cache populated with no phase
\* in flight.
C2_Witness == cachedStyles # <<>> /\ ~InFlight /\ Last("enter-cancelled")

\* C3: the completion callback of every enter or leave invocation is run
\* exactly once, and not before `duration` milliseconds have passed since the
\* invocation applied its last style.
C3_CompletionOnce ==
    /\ [](\A id \in 1..Len(calls) : calls[id].fired <= 1 /\ ~calls[id].early)
    /\ \A id \in CallIds : [](Len(calls) >= id => <>(Len(calls) >= id /\ calls[id].fired = 1))

\* C3 witness: both callbacks of a superseded and a superseding phase have run.
C3_Witness ==
    Len(calls) >= 2 /\ calls[1].fired = 1 /\ calls[2].fired = 1 /\ timers = <<>>

\* C4 as stated: a probe that follows another with no clearing of the cache in
\* between leaves the cache as it was and touches the DOM neither to read nor
\* to write.
C4_SecondProbeNoDom ==
    ((Last("enter") \/ Last("leave")) /\ steps[1].probed) =>
        /\ steps[2].cache = steps[1].cache
        /\ steps[2].reads = 0
        /\ steps[2].writes = 0

\* C4 amended: a probe that follows another with no clearing of the cache in
\* between leaves the cache as it was; when it finds the cache non-empty it
\* touches the DOM neither to read nor to write (and the inline style is as
\* before).
C4_ProbeIdempotent ==
    (Last("enter") \/ Last("leave")) =>
        /\ steps[1].probed => steps[2].cache = steps[1].cache
        /\ steps[1].cache # <<>> =>
               /\ steps[2].cache = steps[1].cache
               /\ steps[2].reads = 0
               /\ steps[2].writes = 0
               /\ steps[2].style = steps[1].style

\* C4 witness: leave probes again on the cache a cancelled enter populated.
C4_Witness ==
    /\ Last("leave") /\ steps[1].probed /\ steps[1].cache # <<>>
    /\ steps[2].op = "detectAndCacheDimensions"

\* C5: along enter, after-enter, leave, after-leave, enter, after-enter every
\* fresh population of the cache captures the same values.
C5_RoundTrip ==
    rtStage >= 0 =>
        \A i, j \in 1..Len(rtProbes) : rtProbes[i] = rtProbes[j]

\* C6: enter runs measure, closed, overflow hidden, reflow, transition,
\* opened, emit, schedule, in this order; at the reflow every cached property
\* is inline `0` and this call has not written the transition yet.
C6_EnterOrder ==
    Last("enter") =>
        /\ Ops = <<"call", "detectAndCacheDimensions", "setClosedDimensions",
                   "hideOverflow", "forceRepaint", "setTransition",
                   "setOpenedDimensions", "$emit", "setTimeout">>
        /\ steps[1].cache # <<>> => steps[2].cache = steps[1].cache
        /\ (steps[1].cache = <<>> /\ dimension \in {"height", "width"}) =>
               KeySet(steps[2].cache) = AxisKeys(dimension)
        /\ \A i \in 2..9 : steps[i].cache = steps[2].cache
        /\ \A k \in KeySet(steps[2].cache) :
               /\ steps[3].style[k] = "0"
               /\ steps[5].style[k] = "0"
               /\ steps[7].style[k] = ValueOf(steps[2].cache, k)
               /\ style[k] = ValueOf(steps[2].cache, k)
        /\ steps[3].style["overflow"] = steps[1].style["overflow"]
        /\ steps[4].style["overflow"] = "hidden"
        /\ steps[5].style["overflow"] = "hidden"
        /\ steps[5].reads = 1
        /\ steps[5].style["transition"] = steps[1].style["transition"]
        /\ steps[6].style["transition"] = transition(steps[2].cache, duration, easing)
        /\ steps[8].event = "enter" /\ steps[8].args = steps[1].args
        /\ steps[9].args = <<steps[1].args[2]>> /\ steps[9].delay = duration

\* C6 witness: an enter that measured a supported axis.
C6_Witness ==
    Last("enter") /\ steps[1].cache = <<>> /\ Len(steps[2].cache) = 3

C8_OneEmitPerHook ==
    (steps # <<>> /\ steps[1].event \in HookNames) =>
        /\ Len(Emitted) = 1
        /\ Emitted[1].event = steps[1].event
        /\ Emitted[1].args = steps[1].args

\* C8 witness: leave-cancelled has been relayed while the cache was populated.
C8_Witness == Last("leave-cancelled") /\ cachedStyles # <<>> /\ Len(Emitted) = 1

\* C9: once populated, the cache is changed by no step other than a settle
\* hook.
C9_CacheImmutableInPhase ==
    [][(cachedStyles # <<>> /\ ~(hostPhase \in {"enterDone", "leaveDone"}
                                 /\ hostPhase' = "idle"))
          => cachedStyles' = cachedStyles]_vars

\* C10: the probe leaves the inline visibility and display as it found them,
\* whether or not it measured.
C10_ProbeRestores ==
    (Last("enter") \/ Last("leave")) =>
        /\ steps[2].op = "detectAndCacheDimensions"
        /\ steps[2].style["visibility"] = steps[1].style["visibility"]
        /\ steps[2].style["display"] = steps[1].style["display"]

\* C10 witness: the probe measured an element that was hidden and not displayed.
C10_Witness ==
    /\ Last("enter") /\ steps[1].cache = <<>> /\ steps[2].writes = 4
    /\ steps[1].style["visibility"] = "hidden" /\ steps[1].style["display"] = "none"

\* C11: when `dimension` goes from height to width while no phase is in
\* flight, the watcher leaves the cache empty, and the next enter or leave
\* measures and caches the width, paddingLeft and paddingRight, nothing else.
C11_IdleAxisChange ==
    /\ (Last("watch:dimension") /\ idleToWidth) => cachedStyles = <<>>
    /\ ((Last("enter") \/ Last("leave")) /\ idleToWidth) =>
        /\ steps[1].cache = <<>>
        /\ Keys(steps[2].cache) = <<"width", "paddingLeft", "paddingRight">>
        /\ steps[2].cache[1].value =
               Px(offsetWidth([steps[1].style EXCEPT !["display"] = ""], sheet))
        /\ steps[2].reads >= 5
        /\ cachedStyles = steps[2].cache

\* C11 witness: the phase after such a change has measured the width on an
\* element that still carries the inline height of an earlier height phase.
C11_Witness ==
    /\ Last("leave") /\ idleToWidth /\ Len(cachedStyles) = 3
    /\ steps[1].style["height"] # ""

\* C12: with the unsupported axis "depth" the probe caches nothing, the
\* transition declaration is the empty string, no size or padding property
\* is written during the hook, one timer of `duration` is scheduled, and the
\* completion of the phase runs, not before `duration`.
C12_UnsupportedAxis ==
    /\ []((Last("enter") \/ Last("leave")) /\ dimension = "depth" =>
            /\ steps[2].cache = <<>>
            /\ steps[6].op = "setTransition" /\ steps[6].style["transition"] = ""
            /\ \A i \in 1..Len(steps) : \A k \in SizeKeys :
                   steps[i].style[k] = steps[1].style[k]
            /\ \A i \in 1..Len(steps) :
                   steps[i].op \in {"setClosedDimensions", "setOpenedDimensions"}
                       => steps[i].writes = 0
            /\ steps[9].op = "setTimeout" /\ steps[9].delay = duration
            /\ steps[9].args = <<steps[1].args[2]>>)
    /\ \A id \in CallIds :
          [](current = id /\ phaseAxis = "depth" =>
                <>(Len(calls) >= id /\ calls[id].fired = 1 /\ ~calls[id].early))

\* C12 witness: the completion of an enter on "depth" has run.
C12_Witness ==
    /\ Last("enter") /\ dimension = "depth" /\ phaseAxis = "depth"
    /\ hostPhase = "enterDone" /\ calls[current].fired = 1

\* The declaration the spec gives for the three keys of an axis.
Declaration(a, b, c, dur, eas) ==
    a \o " " \o ToString(dur) \o "ms " \o eas \o ", "
    \o b \o " " \o ToString(dur) \o "ms " \o eas \o ", "
    \o c \o " " \o ToString(dur) \o "ms " \o eas

\* C13: the transition declaration has one comma-separated token per cached
\* key, `<kebab-case-property> <duration>ms <easing>`, in the order of the keys.
C13_TransitionDeclaration ==
    (Last("enter") \/ Last("leave")) =>
        /\ steps[6].op = "setTransition"
        /\ Keys(steps[5].cache) = <<"height", "paddingTop", "paddingBottom">> =>
               steps[6].style["transition"] =
                   Declaration("height", "padding-top", "padding-bottom", duration, easing)
        /\ Keys(steps[5].cache) = <<"width", "paddingLeft", "paddingRight">> =>
               steps[6].style["transition"] =
                   Declaration("width", "padding-left", "padding-right", duration, easing)
        /\ steps[5].cache = <<>> => steps[6].style["transition"] = ""
        /\ Len(steps[5].cache) \in {0, 3}

\* C13 witness: the declaration of a width phase has been installed.
C13_Witness ==
    /\ Last("enter") /\ dimension = "width"
    /\ style["transition"] =
           Declaration("width", "padding-left", "padding-right", duration, easing)

\* C14: appear-cancelled, enter-cancelled and leave-cancelled leave the cache,
\* every inline style and the pending timers as they are and emit their event.
C14_CancelPassThrough ==
    [][(/\ hostPhase \in {"appearing", "entering", "leaving"} /\ hostPhase' = "idle"
        /\ steps'[1].event \in {"appear-cancelled", "enter-cancelled", "leave-cancelled"})
       => /\ cachedStyles' = cachedStyles
          /\ style' = style
          /\ timers' = timers
          /\ calls' = calls
          /\ Len(steps') = 2
          /\ steps'[2].op = "$emit" /\ steps'[2].event = steps'[1].event]_vars

\* C14 witness: enter-cancelled has run on a populated cache, with the styles of
\* the phase on the element and its timer pending.
C14_Witness ==
    /\ Last("enter-cancelled") /\ Len(cachedStyles) = 3
    /\ style["overflow"] = "hidden" /\ style["transition"] # ""
    /\ timers # <<>>

\* No cache and no inline size, padding, overflow or transition on the element.
Clean ==
    /\ cachedStyles = <<>>
    /\ \A k \in SizeKeys \cup {"overflow", "transition"} : style[k] = ""

\* C15: every enter or leave whose completion has fired is followed, the host
\* answering with the matching after-hook, by an idle state with an empty
\* cache and no inline size, padding, overflow or transition on the element.
C15_EveryPhaseSettles ==
    (hostPhase \in {"enterDone", "leaveDone"}) ~> (hostPhase = "idle" /\ Clean)

\* C16: a leave that finds the cache empty measures, so after its first
\* statement the cache holds the three properties of the supported axis; a
\* leave that finds the cache populated reads nothing from the element and
\* animates from the cached values, and once its after-leave has run the
\* cache is empty and no inline value of the phase remains.
C16_LeaveMeasuresOrReuses ==
    /\ (Last("leave") /\ steps[1].cache = <<>> /\ dimension \in {"height", "width"}) =>
        /\ Len(steps[2].cache) = 3
        /\ KeySet(steps[2].cache) = AxisKeys(dimension)
        /\ steps[2].reads >= 1
    /\ (Last("leave") /\ steps[1].cache # <<>>) =>
        /\ steps[2].cache = steps[1].cache
        /\ steps[2].reads = 0 /\ steps[2].writes = 0
        /\ \A k \in KeySet(steps[1].cache) :
               steps[3].style[k] = ValueOf(steps[1].cache, k)
    /\ (Last("after-leave") /\ reused) =>
        /\ cachedStyles = <<>>
        /\ \A k \in AxisKeys(phaseAxis) \cup {"overflow", "transition"} : style[k] = ""

\* C17: the cache is empty or holds the three keys of the configured axis, in
\* the order the probe writes them.
C17_CacheShape ==
    \/ cachedStyles = <<>>
    \/ /\ dimension = "height"
       /\ Keys(cachedStyles) = <<"height", "paddingTop", "paddingBottom">>
    \/ /\ dimension = "width"
       /\ Keys(cachedStyles) = <<"width", "paddingLeft", "paddingRight">>

\* C17 witness: the cache holds the width keys on an element that still
\* carries the inline height of an earlier phase on the other axis.
C17_Witness ==
    /\ dimension = "width" /\ Len(cachedStyles) = 3
    /\ style["height"] # "" /\ hostPhase = "entering"

\* The timers waiting for the completion of call `id`.
TimersOf(id) == SelectSeq(timers, LAMBDA t : t.done = id)

\* C18: an enter or leave schedules one timer of `duration` for its own
\* completion callback; a timer leaves the queue only by running that
\* callback, whatever hooks run meanwhile; its firing changes neither the
\* cache nor an inline style; the statements that remove inline styles run in
\* after-enter and after-leave only.
C18_OneTimerNeverCancelled ==
    /\ [](/\ (Last("enter") \/ Last("leave")) =>
              /\ Len(SelectSeq(steps, LAMBDA e : e.op = "setTimeout")) = 1
              /\ steps[Len(steps)].op = "setTimeout"
              /\ steps[Len(steps)].args = <<steps[1].args[2]>>
              /\ steps[Len(steps)].delay = duration
           /\ \A id \in 1..Len(calls) :
                 Len(TimersOf(id)) + calls[id].fired = 1
           /\ \A i \in 1..Len(steps) :
                 steps[i].op \in {"unsetOverflow", "unsetTransition", "unsetDimensions"}
                     => steps[1].event \in {"after-enter", "after-leave"})
    /\ [][/\ Len(timers') < Len(timers) =>
              \E i \in 1..Len(timers) :
                 /\ timers[i].waited >= timers[i].delay
                 /\ timers' = SubSeq(timers, 1, i - 1) \o SubSeq(timers, i + 1, Len(timers))
                 /\ calls'[timers[i].done].fired = calls[timers[i].done].fired + 1
                 /\ cachedStyles' = cachedStyles /\ style' = style
          /\ Len(timers') >= Len(timers) =>
              \A i \in 1..Len(timers) :
                 timers'[i].done = timers[i].done /\ timers'[i].delay = timers[i].delay
          /\ Len(calls') > Len(calls) =>
              /\ Len(timers') = Len(timers) + 1
              /\ timers'[Len(timers')] =
                     [done |-> Len(calls'), delay |-> duration, waited |-> 0]]_vars

\* C18 witness: after enter, enter-cancelled and leave, the timer of the
\* superseded enter has run the enter's callback while the leave is in flight
\* with its styles and cache in place.
C18_Witness ==
    /\ Len(calls) = 2 /\ calls[1].fired = 1 /\ calls[2].fired = 0
    /\ current = 2 /\ hostPhase = "leaving" /\ Last("leave") /\ reused
    /\ Len(cachedStyles) = 3 /\ style["overflow"] = "hidden"

====
